---- MODULE Spec2Model ----
(***************************************************************************)
(* State-machine model of KortekStreamAPI (the client-side content         *)
(* loader): circuit breaker, retry timers, request queue, concurrency      *)
(* counter, per-attempt abort timers and the cache tiers.                  *)
(*                                                                         *)
(* One action models one event-loop task of the single-threaded runtime:   *)
(* a call made by the page, a timer callback, or the continuation of an    *)
(* awaited fetch.  Handlers are written as operators on a state record so  *)
(* that a task that calls loadContent several times composes them.         *)
(***************************************************************************)
EXTENDS Integers, Sequences, FiniteSets, Bags, TLC

(***************************************************************************)
(* Program constants (constructor of KortekStreamAPI and literals).        *)
(***************************************************************************)
maxRetries == 5
circuitBreakerThreshold == 8
circuitBreakerResetTime == 30000
maxConcurrentRequests == 8
maxAge == 5 * 60 * 1000
refreshAge == 2 * 60 * 1000

(***************************************************************************)
(* Bounds of the model.                                                    *)
(***************************************************************************)
\* granularity of the clock, in ms
TickMs == 30000
\* largest number of load intents (attempts in flight, pending retry timers,
\* queued requests) the page may have open when it starts another one
MaxActive == 1
\* the same limit where loads of one area overlap
MaxActiveRace == 2
\* loads of the list area, and of each other area, that may be in flight or
\* queued together where the concurrency counter is driven to its limit
ListQuota == 9
OtherQuota == 1
\* the network stops failing once consecutiveFailures has reached this value
FailCap == 9
\* pending processRequestQueue timers at which further responses wait
MaxQueueTimers == 1
\* pending circuit-breaker reset timers at which the network stops failing
MaxResetTimers == 2
\* rejections of requests in flight while the client is offline
OfflineFailCap == 2
\* pages a paginated section has on the server
MaxPage == 2
\* fetches of one section that may be in flight together
MaxSectionFetches == 2
\* frames the call stack of a task holds before the engine throws a RangeError
MaxStack == 40
\* errors ErrorHandler counts in the model
MaxErrorCount == 6
\* pending hide timers of the status indicator
MaxHideTimers == 2
\* length of the idle period modelled by LongIdle, in ms
IdleMs == 180000
\* cache entries older than this are not aged further
AgeCap == 360000

(***************************************************************************)
(* The page: three content areas, one per data-priority value.  Every      *)
(* area has its own data-content-url, hence its own cache key.             *)
(***************************************************************************)
Elems == {"hero", "list", "recs"}

\* element.dataset.priority || 'normal'
priority(e) == IF e = "hero" THEN "high" ELSE IF e = "recs" THEN "low" ELSE "normal"

\* querySelectorAll returns the areas in document order
DomOrder == <<"hero", "list", "recs">>

\* the sections ProgressiveLoader loads: [data-progressive-load] / [data-lazy-load]
Sections == {"recent"}

NoEntry == [present |-> FALSE, age |-> 0, superseded |-> FALSE, payload |-> "none"]
Entry(sup, payload) == [present |-> TRUE, age |-> 0, superseded |-> sup, payload |-> payload]

VARIABLES
    page,                 \* the content areas of the document
    apiHealthy,           \* this.apiHealthy
    consecutiveFailures,  \* this.consecutiveFailures
    offlineMode,          \* this.offlineMode
    networkStatus,        \* this.networkStatus
    concurrentRequests,   \* this.concurrentRequests
    requestQueue,         \* this.requestQueue: sequence of queued requests
    staleContentCache,    \* this.staleContentCache: key -> entry
    sessionStore,         \* sessionStorage content_<key>
    localStore,           \* localStorage content_<key>
    inflight,             \* element -> sequence of fetches not yet settled, oldest first
    retryTimers,          \* bag of pending setTimeout(loadContent(element, retries + 1))
    resetTimers,          \* remaining ms of each pending circuit-breaker reset timer
    queueTimers,          \* number of pending setTimeout(processRequestQueue)
    view,                 \* element -> what the area shows
    loaded,               \* element -> dataset.loaded === 'true'
    openedAgo,            \* ms since the breaker last went from closed to open, -1 if never
    cooldown,             \* "none" | "elapsed" (a reset closed the breaker) | "trialled"
    indicator,            \* #api-status-indicator: "absent" | "empty" | "down" | "ok" | "hidden"
    hideTimers,           \* number of pending setTimeout(indicator.style.display = 'none')
    sectionLoading,       \* section -> dataset.loading: "unset" | "true" | "false"
    sectionLoaded,        \* section -> dataset.loaded: "unset" | "true" | "false"
    sectionAppendMode,    \* section -> dataset.appendMode === 'true'
    sectionAllLoaded,     \* section -> dataset.allLoaded === 'true'
    sectionPage,          \* section -> dataset.page
    sectionView,          \* section -> what the section shows
    loadMoreBtn,          \* section -> the section holds a .load-more-btn
    sectionFetches,       \* section -> the fetchContent calls not yet settled, oldest first
    retryDelays,          \* ProgressiveLoader.retryDelays: page of the retry key -> count
    sectionTimers,        \* bag of pending setTimeout(loadContentSection(element, type))
    observed,             \* section -> the intersection observer observes it
    initialTimers,        \* section -> the timer of loadInitialContent is pending
    errorCount,           \* ErrorHandler.errorCount
    recovered,            \* number of recovery strategies ErrorHandler has applied
    callStack,            \* frames of the task ErrorHandler runs in, innermost last
    thrown,               \* an exception is unwinding callStack
    last                  \* what the last task did

vars == <<page, apiHealthy, consecutiveFailures, offlineMode, networkStatus,
          concurrentRequests, requestQueue, staleContentCache, sessionStore,
          localStore, inflight, retryTimers, resetTimers, queueTimers, view,
          loaded, openedAgo, cooldown, indicator, hideTimers, sectionLoading,
          sectionLoaded, sectionAppendMode, sectionAllLoaded, sectionPage,
          sectionView, loadMoreBtn, sectionFetches, retryDelays, sectionTimers,
          observed, initialTimers, errorCount, recovered, callStack, thrown, last>>

\* the state of ErrorHandler and of the task that reports an error to it
handlerVars == <<errorCount, recovered, callStack, thrown>>

\* the state of ProgressiveLoader and of the sections it loads
sectionVars == <<sectionLoading, sectionLoaded, sectionAppendMode, sectionAllLoaded,
                 sectionPage, sectionView, loadMoreBtn, sectionFetches, retryDelays,
                 sectionTimers, observed, initialTimers>>

\* the state as a record, so that handlers are functions from state to state
St == [apiHealthy |-> apiHealthy, consecutiveFailures |-> consecutiveFailures,
       offlineMode |-> offlineMode, networkStatus |-> networkStatus,
       concurrentRequests |-> concurrentRequests, requestQueue |-> requestQueue,
       staleContentCache |-> staleContentCache, sessionStore |-> sessionStore,
       localStore |-> localStore, inflight |-> inflight,
       retryTimers |-> retryTimers, resetTimers |-> resetTimers,
       queueTimers |-> queueTimers, view |-> view, loaded |-> loaded,
       openedAgo |-> openedAgo,
       cooldown |-> cooldown, indicator |-> indicator, hideTimers |-> hideTimers,
       last |-> last]

Commit(s) ==
    /\ page' = page
    /\ apiHealthy' = s.apiHealthy
    /\ consecutiveFailures' = s.consecutiveFailures
    /\ offlineMode' = s.offlineMode
    /\ networkStatus' = s.networkStatus
    /\ concurrentRequests' = s.concurrentRequests
    /\ requestQueue' = s.requestQueue
    /\ staleContentCache' = s.staleContentCache
    /\ sessionStore' = s.sessionStore
    /\ localStore' = s.localStore
    /\ inflight' = s.inflight
    /\ retryTimers' = s.retryTimers
    /\ resetTimers' = s.resetTimers
    /\ queueTimers' = s.queueTimers
    /\ view' = s.view
    /\ loaded' = s.loaded
    /\ openedAgo' = s.openedAgo
    /\ cooldown' = s.cooldown
    /\ indicator' = s.indicator
    /\ hideTimers' = s.hideTimers
    /\ UNCHANGED <<sectionVars, handlerVars>>
    /\ last' = s.last

\* the record describing a task: which handler ran, the element and the path
\* of its last loadContent call, and whether it settled the first attempt
\* after a cooldown or applied a superseded response; for a task that settles
\* an attempt, the attempt's retries argument, whether forceRetry started it,
\* the error it failed with and the body it received, and the delay of the
\* retry it scheduled; forceRefresh is the argument of the loadContent call
\* whose attempt is settled or whose retry comes due
Task(op, e) ==
    [op |-> op, elem |-> e, path |-> "none", trial |-> FALSE, superseded |-> FALSE,
     retries |-> 0, forced |-> FALSE, err |-> "none", payload |-> "none", delay |-> 0,
     forceRefresh |-> FALSE]

Begin(op, e) == [St EXCEPT !.last = Task(op, e)]

\* the task that settles attempt a
Settle(op, e, a, err) ==
    [Begin(op, e) EXCEPT !.last.trial = a.epoch = "trial",
                         !.last.retries = a.retries,
                         !.last.forced = a.restore >= 0,
                         !.last.forceRefresh = a.forceRefresh,
                         !.last.err = err]

Min(a, b) == IF a < b THEN a ELSE b


(***************************************************************************)
(* Cache tiers.                                                            *)
(***************************************************************************)
\* checkSessionStorageAvailable / checkLocalStorageAvailable in a browser
\* whose storage works
sessionStorageEnabled == TRUE
localStorageEnabled == TRUE

\* element.dataset.contentType, as the words it is made of: home_popular,
\* latest_episodes, recommendations
contentType(e) ==
    CASE e = "hero" -> {"home", "popular"}
      [] e = "list" -> {"latest", "episodes"}
      [] OTHER      -> {"recommendations"}

\* element.dataset.contentUrl, as the words it is made of; the
\* recommendations area sits on a detail page and loads from a URL below it
contentUrl(e) ==
    CASE e = "hero" -> {"api", "popular"}
      [] e = "list" -> {"api", "episodes"}
      [] OTHER      -> {"api", "detail", "recommendations"}

\* const cacheKey = `${contentType}-${url}`
cacheKey(e) == contentType(e) \cup contentUrl(e)

\* String.prototype.includes on a word of the string
includes(str, word) == word \in str

\* the content type of the area is a home or a detail type
HighValueType(e) == includes(contentType(e), "home") \/ includes(contentType(e), "detail")

\* cacheKey.includes('home') || cacheKey.includes('detail')
important(e) == includes(cacheKey(e), "home") \/ includes(cacheKey(e), "detail")

\* JSON.parse accepts the stored string
Readable(entry) == entry.payload # "unparseable"

\* one try encloses both tiers: a JSON.parse that throws for the session
\* entry enters the catch, and the method returns null
getFromBrowserCache(s, e) ==
    IF sessionStorageEnabled /\ s.sessionStore[e].present
    THEN IF Readable(s.sessionStore[e]) THEN s.sessionStore[e] ELSE NoEntry
    ELSE IF localStorageEnabled /\ s.localStore[e].present
         THEN IF Readable(s.localStore[e]) THEN s.localStore[e] ELSE NoEntry
         ELSE NoEntry

shouldUseBrowserCache(s, e) ==
    IF ~localStorageEnabled /\ ~sessionStorageEnabled THEN FALSE
    ELSE IF ~getFromBrowserCache(s, e).present THEN FALSE
    ELSE getFromBrowserCache(s, e).age < maxAge

getStaleContent(s, e) ==
    IF s.staleContentCache[e].present THEN s.staleContentCache[e]
    ELSE getFromBrowserCache(s, e)

shouldRefreshInBackground(cachedData) ==
    IF ~cachedData.present THEN TRUE ELSE cachedData.age > refreshAge

\* a store that keeps the entry it already holds for the key
saveToLocalCacheIfAbsent(s, e, data) ==
    [s EXCEPT !.sessionStore[e] = IF sessionStorageEnabled /\ ~@.present THEN data ELSE @,
              !.localStore[e] = IF localStorageEnabled /\ important(e) /\ ~@.present
                                THEN data ELSE @]

saveToLocalCache(s, e, data) ==
    [s EXCEPT !.sessionStore[e] = IF sessionStorageEnabled THEN data ELSE @,
              !.localStore[e] = IF localStorageEnabled /\ important(e) THEN data ELSE @]

(***************************************************************************)
(* Rendering.  view[e] is the last thing written into the area.            *)
(***************************************************************************)
removeLoadingState(s, e) == [s EXCEPT !.loaded[e] = TRUE]

\* the skeleton is appended only while dataset.loaded is unset
addLoadingState(s, e) ==
    IF s.loaded[e] THEN s ELSE [s EXCEPT !.view[e] = "loading"]

renderStaleContent(s, e, showStaleIndicator) ==
    [s EXCEPT !.view[e] = IF showStaleIndicator THEN "staleIndicator" ELSE "stale"]

renderCachedContent(s, e, isOffline) ==
    removeLoadingState([s EXCEPT !.view[e] = IF isOffline THEN "offlineCached" ELSE "cached"], e)

showOfflineMessage(s, e) == removeLoadingState([s EXCEPT !.view[e] = "offlineMessage"], e)

showCircuitBreakerMessage(s, e) == removeLoadingState([s EXCEPT !.view[e] = "unavailable"], e)

showLoadingError(s, e) == removeLoadingState([s EXCEPT !.view[e] = "error"], e)

renderContent(s, e) == [s EXCEPT !.view[e] = "fresh"]

(***************************************************************************)
(* Circuit breaker.                                                        *)
(***************************************************************************)
\* the test at the head of loadContent
BreakerOpen(s) == ~s.apiHealthy /\ s.consecutiveFailures >= circuitBreakerThreshold

handleCircuitBreakerOpen(s, e) ==
    IF s.staleContentCache[e].present
    THEN removeLoadingState(renderStaleContent(s, e, TRUE), e)
    ELSE showCircuitBreakerMessage(s, e)

handleOfflineMode(s, e) ==
    IF getStaleContent(s, e).present
    THEN renderCachedContent(s, e, TRUE)
    ELSE showOfflineMessage(s, e)

scheduleCircuitBreakerReset(s) ==
    [s EXCEPT !.resetTimers = Append(@, circuitBreakerResetTime)]

\* a reset that zeroes the counter but leaves the breaker open
ResetCallbackKeepsOpen(s) ==
    [s EXCEPT !.consecutiveFailures = 0]

\* a reset that closes the breaker one failure short of the threshold
ResetCallbackOneShort(s) ==
    [s EXCEPT !.apiHealthy = TRUE, !.consecutiveFailures = circuitBreakerThreshold - 1]

\* the callback of the reset timer
ResetCallback(s) ==
    [s EXCEPT !.apiHealthy = TRUE, !.consecutiveFailures = 0]

\* if (this.consecutiveFailures >= this.circuitBreakerThreshold) in handleLoadError
ShouldOpen(failures) == failures >= circuitBreakerThreshold

OpenBreaker(s) ==
    LET s1 == [s EXCEPT !.apiHealthy = FALSE,
                        !.openedAgo = IF s.apiHealthy THEN 0 ELSE @,
                        !.cooldown = IF s.apiHealthy THEN "none" ELSE @]
    IN scheduleCircuitBreakerReset(s1)

(***************************************************************************)
(* Abort timers.  requestTimeouts is keyed by url, so it holds the timer   *)
(* of the attempt that registered last for that url (field mapped).        *)
(***************************************************************************)
Attempt(retries, force, bg, epoch) ==
    [retries |-> retries, forceRefresh |-> force, bg |-> bg, phase |-> "fetch",
     timer |-> ~bg, mapped |-> ~bg, epoch |-> epoch, superseded |-> FALSE,
     restore |-> -1]

\* this.requestTimeouts.delete(url)
requestTimeoutsDelete(s, e) ==
    [s EXCEPT !.inflight[e] = [i \in DOMAIN @ |-> [@[i] EXCEPT !.mapped = FALSE]]]

\* clearTimeout(this.requestTimeouts.get(url)?.timeoutId)
ClearMappedTimer(s, e) ==
    [s EXCEPT !.inflight[e] =
        [i \in DOMAIN @ |-> IF @[i].mapped THEN [@[i] EXCEPT !.timer = FALSE] ELSE @[i]]]

RemoveAt(seq, i) == [j \in 1..(Len(seq) - 1) |-> IF j < i THEN seq[j] ELSE seq[j + 1]]

(***************************************************************************)
(* refreshContentInBackground: a fetch outside the concurrency counter and *)
(* without an abort timer.                                                 *)
(***************************************************************************)
EpochNow(s) ==
    IF s.cooldown = "elapsed" THEN "trial"
    ELSE IF s.cooldown = "trialled" THEN "post" ELSE "pre"

NoteAttempt(s) ==
    [s EXCEPT !.cooldown = IF @ = "none" THEN "none" ELSE "trialled"]

refreshContentInBackground(s, e) ==
    IF s.offlineMode \/ ~s.apiHealthy THEN s
    ELSE NoteAttempt([s EXCEPT !.inflight[e] = Append(@, Attempt(0, FALSE, TRUE, EpochNow(s)))])

(***************************************************************************)
(* loadContent up to its first await.                                      *)
(***************************************************************************)
QueueHasNormal(s) == \E i \in DOMAIN s.requestQueue : s.requestQueue[i].priority = 1

\* a limit that applies to every priority
MustQueueAnyPriority(count, prio) == count >= maxConcurrentRequests

\* if (this.concurrentRequests >= this.maxConcurrentRequests && priority !== 'high')
MustQueue(count, prio) == count >= maxConcurrentRequests /\ prio # "high"

Enqueue(s, e, force) ==
    [s EXCEPT !.requestQueue = Append(@, [elem |-> e, forceRefresh |-> force,
                                          priority |-> IF priority(e) = "low" THEN 0 ELSE 1]),
              !.last.path = "queued"]

StartFetch(s, e, retries, force) ==
    LET s1 == requestTimeoutsDelete(s, e)
        s2 == [s1 EXCEPT !.concurrentRequests = @ + 1,
                         !.inflight[e] = Append(@, Attempt(retries, force, FALSE, EpochNow(s))),
                         !.last.path = "network"]
    IN NoteAttempt(s2)

loadContent(s0, e, retries, forceRefresh) ==
    LET s == [s0 EXCEPT !.last.elem = e] IN
    IF BreakerOpen(s)
    THEN handleCircuitBreakerOpen([s EXCEPT !.last.path = "breaker"], e)
    ELSE IF s.offlineMode
    THEN handleOfflineMode([s EXCEPT !.last.path = "offline"], e)
    ELSE IF ~forceRefresh /\ shouldUseBrowserCache(s, e)
    THEN LET s1 == renderCachedContent([s EXCEPT !.last.path = "cache"], e, FALSE)
         IN IF shouldRefreshInBackground(getFromBrowserCache(s, e))
            THEN refreshContentInBackground(s1, e)
            ELSE s1
    ELSE LET s1 == IF ~forceRefresh /\ getStaleContent(s, e).present /\ retries = 0
                   THEN renderStaleContent(s, e, FALSE)
                   ELSE addLoadingState(s, e)
         IN IF MustQueue(s1.concurrentRequests, priority(e))
            THEN Enqueue(s1, e, forceRefresh)
            ELSE StartFetch(s1, e, retries, forceRefresh)

(***************************************************************************)
(* handleLoadError, entered from the catch block of loadContent after the  *)
(* failed attempt has left inflight.                                       *)
(***************************************************************************)
\* this.retryDelay = 1000
retryDelay == 1000

RECURSIVE Pow2(_)
Pow2(n) == IF n = 0 THEN 1 ELSE 2 * Pow2(n - 1)

\* const jitter = Math.random() * 1000: a value in [0, 1000), in whole ms;
\* the least and the greatest one
Jitters == {0, 999}

\* a delay that grows by retryDelay with every retry
delayLinear(retries, jitter) == retryDelay * (retries + 1) + jitter

\* const delay = (this.retryDelay * Math.pow(2, retries)) + jitter
delay(retries, jitter) == retryDelay * Pow2(retries) + jitter

\* error.name === 'AbortError' || error.message.includes('network')
IsTimeoutOrNetwork(err) == err = "abort" \/ err = "network"

\* a retry condition that looks at the retry count only
ShouldRetryIgnoringBreaker(retries, failures) == retries < maxRetries

\* a retry condition that allows one retry more
ShouldRetryOnceMore(retries, failures) ==
    retries <= maxRetries /\ failures < circuitBreakerThreshold

\* if (retries < this.maxRetries && this.consecutiveFailures < this.circuitBreakerThreshold)
ShouldRetry(retries, failures) == retries < maxRetries /\ failures < circuitBreakerThreshold

\* the timer set at lines 953-955; its callback has the element and the retry
\* count, and the record also notes the forceRefresh argument of the failed
\* call, which the callback does not pass on
RetryOf(l) == [elem |-> l.elem, retries |-> l.retries, forceRefresh |-> l.forceRefresh]

handleLoadError(s, e, err, retries, jitter) ==
    LET s1 == requestTimeoutsDelete(ClearMappedTimer(s, e), e)
        s2 == [s1 EXCEPT !.consecutiveFailures = @ + 1]
    IN IF IsTimeoutOrNetwork(err) /\ s2.staleContentCache[e].present
       THEN removeLoadingState(renderStaleContent(s2, e, TRUE), e)
       ELSE IF ShouldRetry(retries, s2.consecutiveFailures)
       THEN [s2 EXCEPT !.retryTimers = @ (+) SetToBag({RetryOf(s2.last)}),
                       !.last.delay = delay(retries, jitter)]
       ELSE LET s3 == IF s2.staleContentCache[e].present
                      THEN removeLoadingState(renderStaleContent(s2, e, TRUE), e)
                      ELSE showLoadingError(s2, e)
            IN IF ShouldOpen(s3.consecutiveFailures) THEN OpenBreaker(s3) ELSE s3

\* the catch block of loadContent
CatchBlock(s, e, err, retries, jitter) ==
    LET s1 == [s EXCEPT !.concurrentRequests = IF @ > 0 THEN @ - 1 ELSE @]
    IN handleLoadError(s1, e, err, retries, jitter)

\* forceRetry's .finally(): runs when the loadContent promise settles
Finally(s, restore) ==
    IF restore >= 0 /\ ~s.apiHealthy
    THEN [s EXCEPT !.consecutiveFailures = restore]
    ELSE s


(***************************************************************************)
(* processRequestQueue.  The class defines no executeRequest method, so    *)
(* the call in the loop throws a TypeError after the head was shifted off. *)
(***************************************************************************)
\* a queue run that does not look at the network status
processRequestQueueWhileOffline(s) ==
    IF Len(s.requestQueue) = 0 \/ ~s.apiHealthy
    THEN s
    ELSE LET rest == Tail(s.requestQueue)
         IN [s EXCEPT !.requestQueue = rest, !.last.path = "threw"]

processRequestQueue(s) ==
    IF Len(s.requestQueue) = 0 \/ ~s.networkStatus \/ ~s.apiHealthy
    THEN s
    ELSE LET rest == Tail(s.requestQueue)
         IN [s EXCEPT !.requestQueue = rest, !.last.path = "threw"]

RECURSIVE refreshLoaded(_, _)
\* refreshStaleContent: loadContent(element, 0, true) for every loaded area
refreshLoaded(s, i) ==
    IF i > Len(DomOrder) THEN s
    ELSE refreshLoaded(IF DomOrder[i] \in page /\ s.loaded[DomOrder[i]]
                       THEN loadContent(s, DomOrder[i], 0, TRUE)
                       ELSE s, i + 1)

refreshStaleContent(s) == refreshLoaded(s, 1)

(***************************************************************************)
(* Timing.                                                                 *)
(***************************************************************************)
\* longest delay of the retry timer: retryDelay * 2^retries + jitter, jitter < 1000
RetryDelayMax(retries) == retryDelay * Pow2(retries) + 1000

\* priority === 'high' ? 8000 : (priority === 'low' ? 20000 : 12000)
timeoutMs(prio) == IF prio = "high" THEN 8000 ELSE IF prio = "low" THEN 20000 ELSE 12000

RECURSIVE CountFrom(_, _)
CountFrom(fl, i) == IF i > Len(DomOrder) THEN 0 ELSE Len(fl[DomOrder[i]]) + CountFrom(fl, i + 1)

\* number of fetches that have not settled
InflightCount == CountFrom(inflight, 1)

Active == InflightCount + BagCardinality(retryTimers) + Len(requestQueue)

LoadedCount == Cardinality({e \in Elems : loaded[e]})

\* timers shorter than one tick of the clock have fired before it advances
ShortTimerPending ==
    \/ queueTimers > 0
    \/ \E t \in BagToSet(retryTimers) : RetryDelayMax(t.retries) <= TickMs
    \/ \E e \in page : \E i \in 1..Len(inflight[e]) :
          inflight[e][i].timer /\ timeoutMs(priority(e)) <= TickMs

Aged(entry, ms) == IF entry.present THEN [entry EXCEPT !.age = Min(AgeCap, @ + ms)] ELSE entry

(***************************************************************************)
(* Init: the state the constructor leaves, online or offline.              *)
(***************************************************************************)
\* an entry written to browser storage before the page was reloaded
StoredEarlier == [Entry(FALSE, "content") EXCEPT !.age = AgeCap]

\* a stored string that is not JSON
StoredUnreadable == [Entry(FALSE, "unparseable") EXCEPT !.age = AgeCap]

\* the state after construction on a page with the given content areas; kept
\* are the keys whose entries sessionStorage (and localStorage, for important
\* keys) still holds from before a reload of the tab
\* ProgressiveLoader's constructor and the markup of the document: a section
\* is either empty ("blank"), to be filled by its first load, or rendered by
\* the server ("content") with its first page and a load-more button for the
\* second
InitSectionsIn(views) ==
    /\ sectionView \in [Sections -> views]
    /\ sectionLoading = [e \in Sections |-> "unset"]
    /\ sectionLoaded = [e \in Sections |-> "unset"]
    /\ sectionAppendMode = [e \in Sections |-> FALSE]
    /\ sectionAllLoaded = [e \in Sections |-> FALSE]
    /\ sectionPage = [e \in Sections |-> IF sectionView[e] = "content" THEN 2 ELSE 1]
    /\ loadMoreBtn = [e \in Sections |-> sectionView[e] = "content"]
    /\ sectionFetches = [e \in Sections |-> <<>>]
    /\ retryDelays = [k \in 1..MaxPage |-> 0]
    /\ sectionTimers = EmptyBag
    /\ observed = [e \in Sections |-> TRUE]
    /\ initialTimers = [e \in Sections |-> sectionView[e] = "blank"]

\* the state KortekStreamAPI's constructor leaves
InitStored(areas, kept, unreadable) ==
    /\ page = areas
    /\ apiHealthy = TRUE
    /\ consecutiveFailures = 0
    /\ networkStatus \in BOOLEAN
    /\ offlineMode = ~networkStatus
    /\ concurrentRequests = 0
    /\ requestQueue = <<>>
    /\ staleContentCache = [e \in Elems |-> NoEntry]
    /\ sessionStore = [e \in Elems |-> IF e \in unreadable THEN StoredUnreadable
                                        ELSE IF e \in kept THEN StoredEarlier ELSE NoEntry]
    /\ localStore = [e \in Elems |->
                        IF e \in kept /\ important(e) THEN StoredEarlier ELSE NoEntry]
    /\ inflight = [e \in Elems |-> <<>>]
    /\ retryTimers = EmptyBag
    /\ resetTimers = <<>>
    /\ queueTimers = 0
    /\ view = [e \in Elems |-> "blank"]
    /\ loaded = [e \in Elems |-> FALSE]
    /\ openedAgo = -1
    /\ cooldown = "none"
    /\ indicator = "absent"
    /\ hideTimers = 0
    /\ last = Task("init", "hero")

InitApi(areas, kept) == InitStored(areas, kept, {})

\* ErrorHandler's constructor; no task is running
InitErrorHandler ==
    /\ errorCount = 0
    /\ recovered = 0
    /\ callStack = <<>>
    /\ thrown = FALSE

InitPage(areas, kept) ==
    InitApi(areas, kept) /\ InitSectionsIn({"blank"}) /\ InitErrorHandler

\* a page with one content area
Init == InitPage({"list"}, {})

(***************************************************************************)
(* Tasks started by the page and the user.                                 *)
(***************************************************************************)
\* setupProgressiveLoading's timer: this.loadContent(element)
PageLoadContent(e, room) ==
    /\ room
    /\ Commit(loadContent(Begin("loadContent", e), e, 0, FALSE))

\* the Try Again button of the error state
RetryLoading(e, room) ==
    /\ view[e] = "error"
    /\ room
    /\ Commit(loadContent(Begin("retryLoading", e), e, 0, FALSE))

\* the Try Again button of the circuit-breaker message
ForceRetry(e, room) ==
    /\ view[e] = "unavailable"
    /\ room
    /\ LET s0 == Begin("forceRetry", e)
           originalFailures == s0.consecutiveFailures
           s1 == [s0 EXCEPT !.apiHealthy = TRUE, !.consecutiveFailures = 0]
           s2 == loadContent(s1, e, 0, FALSE)
       IN Commit(IF s2.last.path = "network"
                 THEN [s2 EXCEPT !.inflight[e][Len(s2.inflight[e])].restore = originalFailures]
                 ELSE IF s2.last.path = "queued" THEN s2
                 ELSE Finally(s2, originalFailures))

\* window 'offline' event
Offline ==
    /\ networkStatus
    /\ Commit([Begin("offline", "hero") EXCEPT !.networkStatus = FALSE, !.offlineMode = TRUE])

\* window 'online' event
Online(room) ==
    /\ ~networkStatus
    /\ room
    /\ LET s0 == [Begin("online", "hero") EXCEPT !.networkStatus = TRUE, !.offlineMode = FALSE]
           s1 == processRequestQueue(s0)
       IN Commit(IF s1.last.path = "threw" THEN s1 ELSE refreshStaleContent(s1))

\* document 'visibilitychange' to visible
VisibilityChange ==
    /\ Len(requestQueue) > 0
    /\ Commit(processRequestQueue(Begin("visibilitychange", "hero")))

\* the environment lets a request fail while the run is within its bounds
MayFail(failCap) == consecutiveFailures < failCap /\ Len(resetTimers) < MaxResetTimers

(***************************************************************************)
(* Continuations of a foreground fetch.                                    *)
(***************************************************************************)
Fg(e, i) == i \in 1..Len(inflight[e]) /\ ~inflight[e][i].bg

\* lines 454-464: the response headers arrived
AfterFetch(s, e, i) ==
    LET s1 == requestTimeoutsDelete([s EXCEPT !.inflight[e][i].timer = FALSE], e)
    IN [s1 EXCEPT !.concurrentRequests = @ - 1,
                  !.queueTimers = IF Len(s.requestQueue) > 0 THEN @ + 1 ELSE @]

\* fetch resolved with response.ok: loadContent now awaits response.text()
FetchResponseOk(e, i) ==
    /\ Fg(e, i) /\ inflight[e][i].phase = "fetch"
    /\ queueTimers < MaxQueueTimers \/ Len(requestQueue) = 0
    /\ LET s1 == AfterFetch(Begin("responseOk", e), e, i)
       IN Commit([s1 EXCEPT !.inflight[e][i].phase = "body"])

\* fetch resolved with a non-2xx status: throw, catch, handleLoadError
FetchResponseError(e, i, status, failCap) ==
    /\ Fg(e, i) /\ inflight[e][i].phase = "fetch"
    /\ queueTimers < MaxQueueTimers \/ Len(requestQueue) = 0
    /\ MayFail(failCap)
    /\ \E jitter \in Jitters :
       LET a == inflight[e][i]
           s1 == AfterFetch(Settle("responseError", e, a, status), e, i)
           s2 == [s1 EXCEPT !.inflight[e] = RemoveAt(@, i)]
       IN Commit(Finally(CatchBlock(s2, e, status, a.retries, jitter), a.restore))

\* fetch rejected (connection failure); err says whether the message contains 'network'
FetchReject(e, i, err, failCap) ==
    /\ Fg(e, i) /\ inflight[e][i].phase = "fetch"
    /\ MayFail(failCap)
    /\ \E jitter \in Jitters :
       LET a == inflight[e][i]
           s1 == [Settle("reject", e, a, err) EXCEPT !.inflight[e] = RemoveAt(@, i)]
       IN Commit(Finally(CatchBlock(s1, e, err, a.retries, jitter), a.restore))

\* the attempt's own timer fired: controller.abort() rejects the fetch with AbortError
Timeout(e, i, failCap) ==
    /\ Fg(e, i) /\ inflight[e][i].phase = "fetch" /\ inflight[e][i].timer
    /\ MayFail(failCap)
    /\ \E jitter \in Jitters :
       LET a == inflight[e][i]
           s1 == [Settle("timeout", e, a, "abort") EXCEPT !.inflight[e] = RemoveAt(@, i)]
       IN Commit(Finally(CatchBlock(s1, e, "abort", a.retries, jitter), a.restore))

\* the bodies a 2xx response can carry: a usable JSON document or HTML
\* fragment, a JSON document with the error flag and neither data nor html,
\* and a JSON document whose confidence_score is below 0.3
Payloads == {"content", "errorFlag", "lowConfidence"}

\* lines 913-926
isValidAPIResponse(payload) == payload # "errorFlag" /\ payload # "lowConfidence"

\* lines 473-484: the throw for an invalid document is inside the try whose
\* catch treats the body as an HTML fragment, so every body is kept;
\* html tells whether the body was wrapped as { html: content }
parsedData(payload) ==
    IF isValidAPIResponse(payload) THEN [body |-> payload, html |-> FALSE]
    ELSE [body |-> payload, html |-> TRUE]

\* lines 487-506: cache the response, render it, clear the loading state
ApplyResponse(s, e, sup, payload) ==
    LET data == Entry(sup, parsedData(payload).body)
        s1 == [s EXCEPT !.staleContentCache[e] = data]
        s2 == saveToLocalCache(s1, e, data)
    IN removeLoadingState(renderContent(s2, e), e)

\* a success that closes the breaker and keeps the failure count
ResetOnSuccessKeepsCount(s) == [s EXCEPT !.apiHealthy = TRUE]

\* lines 508-510: reset the circuit breaker on success
ResetOnSuccess(s) == [s EXCEPT !.consecutiveFailures = 0, !.apiHealthy = TRUE]

\* older attempts for the same key that are still in flight are now superseded
MarkOlder(s, e, i) ==
    [s EXCEPT !.inflight[e] = [j \in DOMAIN @ |->
                                  IF j < i THEN [@[j] EXCEPT !.superseded = TRUE] ELSE @[j]]]

\* lines 470-516: the body arrived
BodyDone(e, i, payload) ==
    /\ Fg(e, i) /\ inflight[e][i].phase = "body"
    /\ LET a == inflight[e][i]
           s0 == [Settle("bodyDone", e, a, "none") EXCEPT !.last.superseded = a.superseded,
                                                          !.last.payload = payload]
           s1 == ApplyResponse(s0, e, a.superseded, payload)
           s2 == ResetOnSuccess(s1)
           s3 == MarkOlder(s2, e, i)
       IN Commit(Finally([s3 EXCEPT !.inflight[e] = RemoveAt(@, i)], a.restore))

\* response.text() rejected: the catch block runs although the slot was released
BodyError(e, i, err, failCap) ==
    /\ Fg(e, i) /\ inflight[e][i].phase = "body"
    /\ MayFail(failCap)
    /\ \E jitter \in Jitters :
       LET a == inflight[e][i]
           s1 == [Settle("bodyError", e, a, err) EXCEPT !.inflight[e] = RemoveAt(@, i)]
       IN Commit(Finally(CatchBlock(s1, e, err, a.retries, jitter), a.restore))

(***************************************************************************)
(* Continuations of a background refresh.                                  *)
(***************************************************************************)
Bg(e, i) == i \in 1..Len(inflight[e]) /\ inflight[e][i].bg

BgDone(e, i, payload) ==
    /\ Bg(e, i)
    /\ LET a == inflight[e][i]
           data == Entry(a.superseded, parsedData(payload).body)
           s0 == [Begin("bgDone", e) EXCEPT !.last.superseded = a.superseded,
                                            !.last.payload = payload]
           s1 == [s0 EXCEPT !.staleContentCache[e] = data]
           s2 == saveToLocalCache(s1, e, data)
           s3 == MarkOlder(s2, e, i)
       IN Commit([s3 EXCEPT !.inflight[e] = RemoveAt(@, i)])

\* a failed refresh that reports the error in the content area
BgFailShowsError(e, i) ==
    /\ Bg(e, i)
    /\ Commit(showLoadingError([Begin("bgFail", e) EXCEPT !.inflight[e] = RemoveAt(@, i)], e))

\* lines 667-669 and 704-706: a rejected fetch or a non-2xx status ends in
\* the catch that only logs
BgFail(e, i) ==
    /\ Bg(e, i)
    /\ Commit([Begin("bgFail", e) EXCEPT !.inflight[e] = RemoveAt(@, i)])

(***************************************************************************)
(* Timers and the clock.                                                   *)
(***************************************************************************)
RetryTimer(t) ==
    /\ BagIn(t, retryTimers)
    /\ LET s0 == [Begin("retryTimer", t.elem) EXCEPT !.retryTimers = @ (-) SetToBag({t}),
                                                      !.last.forceRefresh = t.forceRefresh]
       IN Commit(loadContent(s0, t.elem, t.retries + 1, FALSE))

QueueTimer ==
    /\ queueTimers > 0
    /\ LET s0 == [Begin("queueTimer", "hero") EXCEPT !.queueTimers = @ - 1]
       IN Commit(processRequestQueue(s0))

ResetTimer ==
    /\ Len(resetTimers) > 0 /\ Head(resetTimers) = 0
    /\ LET s0 == [Begin("resetTimer", "hero") EXCEPT !.resetTimers = Tail(@)]
           s1 == ResetCallback(s0)
       IN Commit([s1 EXCEPT !.cooldown = IF s0.apiHealthy THEN @ ELSE "elapsed"])

Elapse(s, ms) ==
    [s EXCEPT !.resetTimers = [i \in DOMAIN @ |-> IF @[i] > ms THEN @[i] - ms ELSE 0],
              !.openedAgo = IF @ < 0 THEN @ ELSE Min(circuitBreakerResetTime, @ + ms)]

Tick ==
    /\ ~ShortTimerPending
    /\ ~(Len(resetTimers) > 0 /\ Head(resetTimers) = 0)
    /\ Commit(Elapse(Begin("tick", "hero"), TickMs))

\* nothing is pending and the page sits idle for IdleMs: cache entries age
LongIdle ==
    /\ InflightCount = 0 /\ retryTimers = EmptyBag /\ resetTimers = <<>> /\ queueTimers = 0
    /\ LET s0 == Elapse(Begin("idle", "hero"), IdleMs)
       IN Commit([s0 EXCEPT !.staleContentCache = [e \in Elems |-> Aged(@[e], IdleMs)],
                            !.sessionStore = [e \in Elems |-> Aged(@[e], IdleMs)],
                            !.localStore = [e \in Elems |-> Aged(@[e], IdleMs)]])

ErrKinds == {"network", "other"}

\* response.ok is false: a client error or a server error status
Statuses == {"http4xx", "http5xx"}

\* a page with one content area whose loads follow one another
Next ==
    \/ \E e \in page : PageLoadContent(e, Active < MaxActive)
    \/ \E e \in page : RetryLoading(e, Active < MaxActive)
    \/ \E e \in page : ForceRetry(e, Active < MaxActive)
    \/ Offline
    \/ Online(Active + LoadedCount <= MaxActive)
    \/ \E e \in page : \E i \in 1..Len(inflight[e]) : FetchResponseOk(e, i)
    \/ \E e \in page : \E i \in 1..Len(inflight[e]) : \E status \in Statuses : FetchResponseError(e, i, status, FailCap)
    \/ \E e \in page : \E i \in 1..Len(inflight[e]) : \E err \in ErrKinds : FetchReject(e, i, err, FailCap)
    \/ \E e \in page : \E i \in 1..Len(inflight[e]) : Timeout(e, i, FailCap)
    \/ \E e \in page : \E i \in 1..Len(inflight[e]) : \E payload \in Payloads : BodyDone(e, i, payload)
    \/ \E e \in page : \E i \in 1..Len(inflight[e]) : \E err \in ErrKinds : BodyError(e, i, err, FailCap)
    \/ \E e \in page : \E i \in 1..Len(inflight[e]) : \E payload \in Payloads : BgDone(e, i, payload)
    \/ \E e \in page : \E i \in 1..Len(inflight[e]) : BgFail(e, i)
    \/ \E t \in BagToSet(retryTimers) : RetryTimer(t)
    \/ ResetTimer
    \/ Tick
    \/ LongIdle

Spec == Init /\ [][Next]_vars

\* the same page, always online, with up to MaxActiveRace loads of the area at once
InitRace == InitPage({"list"}, {}) /\ networkStatus

NextRace ==
    \/ \E e \in page : PageLoadContent(e, Active < MaxActiveRace)
    \/ \E e \in page : RetryLoading(e, Active < MaxActiveRace)
    \/ \E e \in page : \E i \in 1..Len(inflight[e]) : FetchResponseOk(e, i)
    \/ \E e \in page : \E i \in 1..Len(inflight[e]) : \E status \in Statuses : FetchResponseError(e, i, status, FailCap)
    \/ \E e \in page : \E i \in 1..Len(inflight[e]) : Timeout(e, i, FailCap)
    \/ \E e \in page : \E i \in 1..Len(inflight[e]) : BodyDone(e, i, "content")
    \/ \E t \in BagToSet(retryTimers) : RetryTimer(t)
    \/ ResetTimer
    \/ Tick

SpecRace == InitRace /\ [][NextRace]_vars

\* a page with three content areas, always online, whose list area is loaded often
\* enough to use up every slot of the concurrency counter; the oldest attempt of
\* an area is the one that is answered next, and every answer is a success
InitQueue == InitPage({"hero", "list", "recs"}, {}) /\ networkStatus

Quota(e) == IF e = "list" THEN ListQuota ELSE OtherQuota

Pending(e) ==
    Len(inflight[e]) + Cardinality({i \in DOMAIN requestQueue : requestQueue[i].elem = e})

NextQueue ==
    \/ \E e \in page : PageLoadContent(e, Pending(e) < Quota(e))
    \/ \E e \in page : FetchResponseOk(e, 1)
    \/ \E e \in page : BodyDone(e, 1, "content")
    \/ QueueTimer
    \/ VisibilityChange

SpecQueue == InitQueue /\ [][NextQueue]_vars

\* a page whose list area is loaded until requests wait in the queue; then the
\* connection is lost and comes back: requests in flight while the client is
\* offline are rejected with a network error and the retries they schedule
\* come due
InitOffline == InitPage({"list"}, {}) /\ networkStatus

NextOffline ==
    \/ \E e \in page : PageLoadContent(e, Pending(e) < Quota(e))
    \/ \E e \in page : FetchResponseOk(e, 1)
    \/ \E e \in page : BodyDone(e, 1, "content")
    \/ \E e \in page : ~networkStatus /\ FetchReject(e, 1, "network", OfflineFailCap)
    \/ \E t \in BagToSet(retryTimers) : RetryTimer(t)
    \/ QueueTimer
    \/ VisibilityChange
    \/ Len(requestQueue) > 0 /\ Offline
    \/ Online(\A e \in page : Pending(e) < Quota(e))

SpecOffline == InitOffline /\ [][NextOffline]_vars

(***************************************************************************)
(* Properties.                                                             *)
(***************************************************************************)
\* the steps in which a foreground attempt fails
FailureOps == {"responseError", "reject", "timeout", "bodyError"}

\* attempts waiting for their response headers
RECURSIVE FetchingFrom(_, _)
FetchingFrom(fl, i) ==
    IF i > Len(DomOrder) THEN 0
    ELSE Cardinality({j \in DOMAIN fl[DomOrder[i]] :
                         ~fl[DomOrder[i]][j].bg /\ fl[DomOrder[i]][j].phase = "fetch"})
         + FetchingFrom(fl, i + 1)

FetchingCount == FetchingFrom(inflight, 1)

\* C1: the breaker never opens before the failure that brings consecutiveFailures
\* to the threshold, it is open right after that failure, and a cooldown is
\* scheduled only by the step that takes the breaker from closed to open.
C1_OpensOnceAtThreshold ==
    [][ /\ (apiHealthy /\ ~apiHealthy' => consecutiveFailures + 1 >= circuitBreakerThreshold)
        /\ (last'.op \in FailureOps /\ consecutiveFailures + 1 = circuitBreakerThreshold
              => ~apiHealthy')
        /\ (Len(resetTimers') > Len(resetTimers) => apiHealthy) ]_vars

\* C2: no network attempt starts while less than circuitBreakerResetTime has
\* passed since the breaker last opened.
C2_NoAttemptDuringCooldown ==
    [][ InflightCount' > InflightCount
          => (openedAgo = -1 \/ openedAgo >= circuitBreakerResetTime) ]_vars

C6_DequeuedIsDispatched ==
    [][ Len(requestQueue') < Len(requestQueue) => InflightCount' > InflightCount ]_vars

\* C7: no attempt of a low-priority request starts while a normal-priority request
\* waits in the queue, and the queue is left from its head.
C7_PriorityThenFifo ==
    [][ /\ (InflightCount' > InflightCount /\ priority(last'.elem) = "low"
              => ~QueueHasNormal(St))
        /\ (Len(requestQueue') < Len(requestQueue) => requestQueue' = Tail(requestQueue)) ]_vars

\* C8: the cached entry of a key never comes from a response that a newer
\* request for the key, already completed, had superseded.
C8_NewestRequestWins ==
    \A e \in page : ~staleContentCache[e].superseded

\* C9: an area that shows the loading state has work pending that will end it:
\* an attempt in flight, a retry timer, or a queued request.
C9_LoadingHasPendingWork ==
    \A e \in page :
       view[e] = "loading"
          => \/ Len(inflight[e]) > 0
             \/ \E t \in BagToSet(retryTimers) : t.elem = e
             \/ \E i \in DOMAIN requestQueue : requestQueue[i].elem = e

\* C10: every attempt that waits for its response has its own abort timer armed.
C10_OwnTimeoutArmed ==
    \A e \in page : \A i \in DOMAIN inflight[e] :
       ~inflight[e][i].bg /\ inflight[e][i].phase = "fetch" => inflight[e][i].timer

\* C11: a 4xx response is never retried: the failure of an attempt answered
\* with a client-error status schedules no retry timer.
C11_ClientErrorNotRetried ==
    [][ last'.op = "responseError" /\ last'.err = "http4xx"
          => retryTimers' = retryTimers ]_vars

\* C12: a JSON response with an error flag and no usable data/html, or with a
\* confidence score below 0.3, is written to no cache tier, is not rendered as
\* content and is counted as a failed attempt.
C12_InvalidPayloadRejected ==
    [][ last'.op \in {"bodyDone", "bgDone"} /\ ~isValidAPIResponse(last'.payload)
          => /\ staleContentCache' = staleContentCache
             /\ sessionStore' = sessionStore
             /\ localStore' = localStore
             /\ view'[last'.elem] # "fresh"
             /\ (last'.op = "bodyDone"
                   => consecutiveFailures' = consecutiveFailures + 1) ]_vars

(***************************************************************************)
(* The page reloaded in a tab whose browser storage kept the entry of its  *)
(* content area: the in-memory cache starts empty, the stored entry is old.*)
(***************************************************************************)
InitReload == InitPage({"list"}, {"list"})

SpecReload == InitReload /\ [][Next]_vars

(***************************************************************************)
(* A page whose area is loaded again and again while the server answers    *)
(* every request: cached entries age, loads are served from the cache and  *)
(* background refreshes run next to them.                                  *)
(***************************************************************************)
InitRefresh == InitPage({"hero", "list"}, {}) /\ networkStatus

NextRefresh ==
    \/ \E e \in page : PageLoadContent(e, Active < MaxActiveRace)
    \/ \E e \in page : \E i \in 1..Len(inflight[e]) : FetchResponseOk(e, i)
    \/ \E e \in page : \E i \in 1..Len(inflight[e]) : BodyDone(e, i, "content")
    \/ \E e \in page : \E i \in 1..Len(inflight[e]) : BgDone(e, i, "content")
    \/ \E e \in page : \E i \in 1..Len(inflight[e]) : BgFail(e, i)
    \/ LongIdle

SpecRefresh == InitRefresh /\ [][NextRefresh]_vars

\* the failures the retry policy calls transient: network error, timeout, 5xx
Transient == {"network", "abort", "http5xx"}

\* a failure handler ran for a transient failure of an attempt that has
\* retries left
TransientFailure(l) ==
    l.op \in FailureOps /\ l.err \in Transient /\ l.retries < maxRetries

C14_AtMostMaxRetriesAttempts ==
    \A e \in page : \A i \in DOMAIN inflight[e] :
       ~inflight[e][i].bg => inflight[e][i].retries + 1 <= maxRetries

\* C14 amended: a load intent never issues more than maxRetries retries, that
\* is maxRetries + 1 network attempts, and the failure of the last one
\* schedules nothing and falls back to stale content or the error state.
C14_AtMostMaxRetriesRetries ==
    [][ /\ \A e \in page : \A i \in DOMAIN inflight'[e] :
             inflight'[e][i].retries <= maxRetries
        /\ \A t \in BagToSet(retryTimers') : t.retries < maxRetries
        /\ (last'.op \in FailureOps /\ last'.retries = maxRetries
              => /\ retryTimers' = retryTimers
                 /\ view'[last'.elem] \in {"error", "staleIndicator"}) ]_vars

\* attempt number maxRetries + 1 of a load intent is in flight
C14_LastRetryInFlight ==
    \E e \in page : \E i \in DOMAIN inflight[e] :
       ~inflight[e][i].bg /\ inflight[e][i].retries = maxRetries

\* some cache tier holds an entry for the key of area e
AnyTierHolds(e) ==
    staleContentCache[e].present \/ sessionStore[e].present \/ localStore[e].present

\* C15: a load that finds the breaker open renders the entry of the key as
\* stale content when any cache tier holds one, and renders the unavailable
\* state only when no tier holds an entry; it makes no network attempt.
C15_OpenBreakerServesAnyTier ==
    [][ last'.op = "loadContent" /\ last'.path = "breaker"
          => /\ inflight' = inflight
             /\ (AnyTierHolds(last'.elem) => view'[last'.elem] = "staleIndicator")
             /\ (view'[last'.elem] = "unavailable" => ~AnyTierHolds(last'.elem)) ]_vars

\* C16: the manual retry of the unavailable state performs exactly one trial
\* attempt: when that attempt fails no automatic retry follows and the
\* breaker is open again.
C16_ManualRetryIsOneTrial ==
    [][ last'.op \in FailureOps /\ last'.forced
          => retryTimers' = retryTimers /\ ~apiHealthy' ]_vars

\* C17: a load served from the cache while a background refresh that an
\* earlier load of the same key started is still in flight (the entry has the
\* same age as then) starts no network attempt, foreground or background.
C17_RepeatedLoadAddsNoAttempt ==
    [][ /\ last'.op = "loadContent" /\ last'.path = "cache"
        /\ \E i \in DOMAIN inflight[last'.elem] : inflight[last'.elem][i].bg
        => inflight' = inflight ]_vars

\* what a read of browser storage returns in the state after the step
BrowserCacheAfter(e) ==
    IF sessionStorageEnabled /\ sessionStore'[e].present THEN sessionStore'[e]
    ELSE IF localStorageEnabled /\ localStore'[e].present THEN localStore'[e]
    ELSE NoEntry

C19_SuccessResetsBreaker ==
    [][ last'.op \in {"bodyDone", "bgDone"}
          => consecutiveFailures' = 0 /\ apiHealthy' ]_vars

\* C20: after a successful fetch the in-memory cache holds the
\* response with age 0, and localStorage holds the same entry exactly when the
\* content type of the key is a home or detail type.
C20_DurableIffHighValueType ==
    [][ last'.op = "bodyDone"
          => LET e == last'.elem
                 e2 == Entry(last'.superseded, last'.payload)
             IN /\ staleContentCache'[e] = e2
                /\ (localStore'[e] = e2 <=> HighValueType(e)) ]_vars

\* C21: every entry in localStorage belongs to a key whose content
\* type is a home or detail type, whatever the URL of the key.
C21_DurableOnlyHighValueTypes ==
    \A e \in Elems : localStore[e].present => HighValueType(e)

\* C22: a load for a key with no cached entry and no other traffic whose first
\* three attempts are answered with a 5xx status and whose fourth attempt is
\* answered with 200: each of the three failures schedules the next attempt
\* and shows neither stale content nor the error state, each retry goes to the
\* network, and the fourth attempt ends with the fresh content rendered and
\* consecutiveFailures = 0.
C22_ThreeFailuresThenSuccess ==
    [][ /\ ( /\ last'.op = "responseError" /\ last'.err = "http5xx"
             /\ last'.retries < 3 /\ consecutiveFailures = last'.retries
             /\ ~AnyTierHolds(last'.elem) /\ view[last'.elem] = "loading"
             => /\ retryTimers' = SetToBag({RetryOf(last')})
                /\ consecutiveFailures' = last'.retries + 1
                /\ view'[last'.elem] = "loading" )
        /\ ( /\ last'.op = "retryTimer" /\ consecutiveFailures <= 3
             /\ ~AnyTierHolds(last'.elem) /\ ~offlineMode
             => /\ last'.path = "network"
                /\ Len(inflight'[last'.elem]) = Len(inflight[last'.elem]) + 1 )
        /\ ( /\ last'.op = "bodyDone" /\ last'.retries = 3
             /\ isValidAPIResponse(last'.payload)
             => /\ view'[last'.elem] = "fresh"
                /\ consecutiveFailures' = 0 /\ apiHealthy' ) ]_vars

\* the fourth attempt of a load, made after three failures, has been answered
\* and its content is shown
C22_FourthAttemptRendered ==
    /\ last.op = "bodyDone" /\ last.retries = 3 /\ last.payload = "content"
    /\ view[last.elem] = "fresh" /\ consecutiveFailures = 0
    /\ retryTimers = EmptyBag /\ InflightCount = 0

\* the tasks that call loadContent for a new load or for a retry that is due
LoadOps == {"loadContent", "retryLoading", "retryTimer"}

C24_RefreshUsesSlotTimeoutBreaker ==
    [][ /\ ( /\ last'.op = "loadContent" /\ last'.path = "cache"
             /\ Len(inflight'[last'.elem]) > Len(inflight[last'.elem])
             => /\ concurrentRequests' = concurrentRequests + 1
                /\ inflight'[last'.elem][Len(inflight'[last'.elem])].timer )
        /\ (last'.op = "bgDone" => consecutiveFailures' = 0)
        /\ (last'.op = "bgFail" => consecutiveFailures' = consecutiveFailures + 1) ]_vars

\* C25: a load served from the cache renders the cached value in the same
\* task, whether or not it starts a background refresh, and a background
\* refresh that fails leaves the displayed content, every cache tier and the
\* breaker as they were.
C25_RefreshNeverDisturbs ==
    [][ /\ (last'.op = "loadContent" /\ last'.path = "cache"
              => view'[last'.elem] = "cached")
        /\ (last'.op = "bgFail"
              => /\ view' = view /\ loaded' = loaded
                 /\ staleContentCache' = staleContentCache
                 /\ sessionStore' = sessionStore /\ localStore' = localStore
                 /\ consecutiveFailures' = consecutiveFailures
                 /\ apiHealthy' = apiHealthy) ]_vars

\* a background refresh has failed while the cached value is on display
C25_RefreshFailedContentKept ==
    /\ last.op = "bgFail" /\ view[last.elem] = "cached"
    /\ staleContentCache[last.elem].present /\ sessionStore[last.elem].present

\* C26: the delay of the retry scheduled after the failure of the attempt with
\* retry count n lies in [retryDelay * 2^n, retryDelay * 2^n + retryDelay],
\* and it is longer than every delay the retry before it could have had.
C26_DelayDoublesWithJitter ==
    [][ last'.op \in FailureOps /\ retryTimers' # retryTimers
          => LET n == last'.retries
             IN /\ last'.delay >= retryDelay * Pow2(n)
                /\ last'.delay <= retryDelay * Pow2(n) + retryDelay
                /\ (n > 0 => \A j \in Jitters : last'.delay > delay(n - 1, j)) ]_vars

\* the retry after the third failure of a load has been scheduled with the
\* longest delay it can have
C26_ThirdRetryLongestDelay ==
    /\ last.op \in FailureOps /\ last.retries = 2
    /\ last.delay = 4999 /\ retryTimers # EmptyBag

\* C27: concurrentRequests equals the number of loadContent fetches that were
\* started and have neither been answered nor failed.
C27_CounterMatchesFetches ==
    concurrentRequests = FetchingCount

\* C28: in every state between two events the breaker flags agree: apiHealthy
\* is false exactly when consecutiveFailures has reached the threshold.
C28_FlagsAgree ==
    ~apiHealthy <=> consecutiveFailures >= circuitBreakerThreshold

\* C29: at most one circuit-breaker reset timer is pending, and a reset timer
\* that closes the breaker fires no sooner than circuitBreakerResetTime after
\* the latest transition to open.
C29_OneResetPerOpening ==
    [][ /\ Len(resetTimers') <= 1
        /\ (last'.op = "resetTimer" /\ ~apiHealthy
              => openedAgo >= circuitBreakerResetTime) ]_vars

\* C30: the retry of a load that was started with forceRefresh = true goes to
\* the network (or waits in the queue for it) while the breaker is closed and
\* the client is online; it is never served from the cache.
C30_RetryKeepsForceRefresh ==
    [][ /\ last'.op = "retryTimer" /\ last'.forceRefresh
        /\ apiHealthy /\ ~offlineMode
        => last'.path \in {"network", "queued"} ]_vars

(***************************************************************************)
(* The health probe.  checkAPIStatus is started by the constructor, every  *)
(* 30 s by an interval, and by the visibilitychange and online handlers,   *)
(* so a probe may be answered at any time; its continuation is a task of   *)
(* its own.                                                                *)
(***************************************************************************)
\* updateStatusIndicator(status), isDown = status.circuit_breaker_open
updateStatusIndicatorAndBreaker(s, isDown) ==
    LET s1 == [s EXCEPT !.indicator = IF @ = "absent" THEN "empty" ELSE @,
                        !.apiHealthy = ~isDown]
    IN IF isDown THEN [s1 EXCEPT !.indicator = "down"]
       ELSE IF s1.indicator # "hidden"
            THEN [s1 EXCEPT !.indicator = "ok", !.hideTimers = @ + 1]
            ELSE s1

updateStatusIndicator(s, isDown) ==
    LET s1 == [s EXCEPT !.indicator = IF @ = "absent" THEN "empty" ELSE @]
    IN IF isDown THEN [s1 EXCEPT !.indicator = "down"]
       ELSE IF s1.indicator # "hidden"
            THEN [s1 EXCEPT !.indicator = "ok", !.hideTimers = @ + 1]
            ELSE s1

\* the probe's outcomes: the status the server reports, or "failed" when the
\* fetch rejects or the body is not JSON
ProbeOutcomes == {"ok", "circuitBreakerOpen", "failed"}

\* checkAPIStatus after its awaits: the try block with the reported status, or
\* the catch block with { circuit_breaker_open: true }
checkAPIStatus(outcome) ==
    /\ hideTimers < MaxHideTimers
    /\ Commit([updateStatusIndicator(Begin("checkAPIStatus", "hero"), outcome # "ok")
                 EXCEPT !.last.err = outcome])

\* the timer set by updateStatusIndicator after 'All Systems OK'
HideTimer ==
    /\ hideTimers > 0
    /\ Commit([Begin("hideTimer", "hero") EXCEPT !.indicator = "hidden",
                                                 !.hideTimers = @ - 1])

\* the close button of the 'API Issues' banner
CloseIndicator ==
    /\ indicator = "down"
    /\ Commit([Begin("closeIndicator", "hero") EXCEPT !.indicator = "hidden"])

\* a page with one content area whose loads follow one another, online, and
\* the health probe answered at any time
InitProbe == InitPage({"list"}, {}) /\ networkStatus

NextProbe ==
    \/ \E e \in page : PageLoadContent(e, Active < MaxActive)
    \/ \E e \in page : \E i \in 1..Len(inflight[e]) : FetchResponseOk(e, i)
    \/ \E e \in page : \E i \in 1..Len(inflight[e]) : FetchResponseError(e, i, "http5xx", FailCap)
    \/ \E e \in page : \E i \in 1..Len(inflight[e]) : BodyDone(e, i, "content")
    \/ \E t \in BagToSet(retryTimers) : RetryTimer(t)
    \/ ResetTimer
    \/ Tick
    \/ \E outcome \in ProbeOutcomes : checkAPIStatus(outcome)
    \/ HideTimer
    \/ CloseIndicator

SpecProbe == InitProbe /\ [][NextProbe]_vars

\* C31: a health probe, whatever its outcome, leaves apiHealthy,
\* consecutiveFailures, concurrentRequests, the request queue and the three
\* cache tiers as they were.
C31_ProbeChangesOnlyIndicator ==
    [][ last'.op = "checkAPIStatus"
        => /\ apiHealthy' = apiHealthy
           /\ consecutiveFailures' = consecutiveFailures
           /\ concurrentRequests' = concurrentRequests
           /\ requestQueue' = requestQueue
           /\ staleContentCache' = staleContentCache
           /\ sessionStore' = sessionStore
           /\ localStore' = localStore ]_vars

\* a probe answered 'all systems ok' while the client's own breaker is open
C31_ProbeOkWhileBreakerOpen ==
    /\ last.op = "checkAPIStatus" /\ last.err = "ok"
    /\ ~apiHealthy /\ indicator = "ok"

(***************************************************************************)
(* Browser storage that refuses a write: setItem throws (QuotaExceededError*)
(* or a SecurityError) for the session tier or for the durable tier.       *)
(***************************************************************************)
\* the setItem call that throws
WriteFailures == {"sessionQuota", "localQuota"}

\* saveToLocalCache without its try/catch: the exception of setItem leaves the
\* method and reaches the catch block of loadContent
saveToLocalCacheUncaught(s, e, data, fails) ==
    IF sessionStorageEnabled /\ fails = "sessionQuota"
    THEN [s |-> s, thrown |-> TRUE]
    ELSE LET s1 == [s EXCEPT !.sessionStore[e] = IF sessionStorageEnabled THEN data ELSE @]
         IN IF localStorageEnabled /\ important(e) /\ fails = "localQuota"
            THEN [s |-> s1, thrown |-> TRUE]
            ELSE [s |-> [s1 EXCEPT !.localStore[e] =
                                      IF localStorageEnabled /\ important(e) THEN data ELSE @],
                  thrown |-> FALSE]

\* saveToLocalCache when the setItem named by fails throws: the writes before
\* it are kept, the ones after it are skipped, and the catch of lines 612-614
\* logs a warning; thrown tells whether an exception leaves the method
saveToLocalCacheFailing(s, e, data, fails) ==
    IF sessionStorageEnabled /\ fails = "sessionQuota"
    THEN [s |-> s, thrown |-> FALSE]
    ELSE LET s1 == [s EXCEPT !.sessionStore[e] = IF sessionStorageEnabled THEN data ELSE @]
         IN IF localStorageEnabled /\ important(e) /\ fails = "localQuota"
            THEN [s |-> s1, thrown |-> FALSE]
            ELSE [s |-> [s1 EXCEPT !.localStore[e] =
                                      IF localStorageEnabled /\ important(e) THEN data ELSE @],
                  thrown |-> FALSE]

\* lines 470-516 with a refused storage write: the memory cache is set before
\* saveToLocalCache is called, and the call sits inside the try of loadContent
BodyDoneStorageFull(e, i, payload, fails) ==
    /\ Fg(e, i) /\ inflight[e][i].phase = "body"
    /\ LET a == inflight[e][i]
           s0 == [Settle("bodyDoneStorageFull", e, a, fails)
                     EXCEPT !.last.superseded = a.superseded, !.last.payload = payload]
           data == Entry(a.superseded, parsedData(payload).body)
           s1 == [s0 EXCEPT !.staleContentCache[e] = data]
           r == saveToLocalCacheFailing(s1, e, data, fails)
           s2 == removeLoadingState(renderContent(r.s, e), e)
           s3 == MarkOlder(ResetOnSuccess(s2), e, i)
           gone == [r.s EXCEPT !.inflight[e] = RemoveAt(@, i)]
       IN IF r.thrown
          THEN \E jitter \in Jitters :
                  Commit(Finally(CatchBlock(gone, e, "other", a.retries, jitter), a.restore))
          ELSE Commit(Finally([s3 EXCEPT !.inflight[e] = RemoveAt(@, i)], a.restore))

\* a page with a home area, whose entries go to both storage tiers, online,
\* and storage that may refuse a write
InitStorage == InitPage({"hero"}, {}) /\ networkStatus

NextStorage ==
    \/ \E e \in page : PageLoadContent(e, Active < MaxActive)
    \/ \E e \in page : \E i \in 1..Len(inflight[e]) : FetchResponseOk(e, i)
    \/ \E e \in page : \E i \in 1..Len(inflight[e]) : FetchResponseError(e, i, "http5xx", FailCap)
    \/ \E e \in page : \E i \in 1..Len(inflight[e]) : \E payload \in Payloads : BodyDone(e, i, payload)
    \/ \E e \in page : \E i \in 1..Len(inflight[e]) : \E payload \in Payloads :
          \E fails \in WriteFailures : BodyDoneStorageFull(e, i, payload, fails)
    \/ \E t \in BagToSet(retryTimers) : RetryTimer(t)
    \/ ResetTimer
    \/ Tick
    \/ LongIdle

SpecStorage == InitStorage /\ [][NextStorage]_vars

\* C32: a load whose storage write is refused still renders the fresh content,
\* updates the in-memory entry, resets the failure count, keeps the breaker
\* closed and schedules no retry.
C32_StorageFailureStillSucceeds ==
    [][ last'.op = "bodyDoneStorageFull"
        => /\ view'[last'.elem] = "fresh"
           /\ loaded'[last'.elem]
           /\ staleContentCache'[last'.elem] =
                 Entry(last'.superseded, parsedData(last'.payload).body)
           /\ consecutiveFailures' = 0 /\ apiHealthy'
           /\ retryTimers' = retryTimers /\ resetTimers' = resetTimers ]_vars

\* a retry, made after failures, succeeded although the session tier refused
\* the write: the memory cache holds the entry and the session tier does not
C32_SessionWriteRefused ==
    /\ last.op = "bodyDoneStorageFull" /\ last.err = "sessionQuota"
    /\ last.retries > 0
    /\ staleContentCache[last.elem].present /\ ~sessionStore[last.elem].present
    /\ view[last.elem] = "fresh"

(***************************************************************************)
(* ProgressiveLoader.  A section's retry key is type-category-page; the    *)
(* section keeps its type and category, so the key is told by the page.    *)
(***************************************************************************)
\* ProgressiveLoader.maxRetries
sectionMaxRetries == 3

\* everything but the sections and the record of the last task
apiVars == <<page, apiHealthy, consecutiveFailures, offlineMode, networkStatus,
             concurrentRequests, requestQueue, staleContentCache, sessionStore,
             localStore, inflight, retryTimers, resetTimers, queueTimers, view,
             loaded, openedAgo, cooldown, indicator, hideTimers>>

Sec == [loading |-> sectionLoading, loaded |-> sectionLoaded,
        appendMode |-> sectionAppendMode, allLoaded |-> sectionAllLoaded,
        page |-> sectionPage, view |-> sectionView, btn |-> loadMoreBtn,
        fetches |-> sectionFetches, retryDelays |-> retryDelays,
        timers |-> sectionTimers, observed |-> observed,
        initialTimers |-> initialTimers, last |-> last]

SecCommit(p) ==
    /\ sectionLoading' = p.loading
    /\ sectionLoaded' = p.loaded
    /\ sectionAppendMode' = p.appendMode
    /\ sectionAllLoaded' = p.allLoaded
    /\ sectionPage' = p.page
    /\ sectionView' = p.view
    /\ loadMoreBtn' = p.btn
    /\ sectionFetches' = p.fetches
    /\ retryDelays' = p.retryDelays
    /\ sectionTimers' = p.timers
    /\ observed' = p.observed
    /\ initialTimers' = p.initialTimers
    /\ last' = p.last
    /\ UNCHANGED <<apiVars, handlerVars>>

\* a task of ProgressiveLoader; path tells what its loadContentSection call
\* did: "busy", "loaded" or "network"
SecBegin(op, e) == [Sec EXCEPT !.last = Task(op, e)]

\* a loadContentSection that does not look at dataset.loading
loadContentSectionUnguarded(p, e) ==
    IF p.loaded[e] = "true" /\ ~p.appendMode[e] THEN [p EXCEPT !.last.path = "loaded"]
    ELSE [p EXCEPT !.loading[e] = "true",
                   !.fetches[e] = Append(@, [page |-> p.page[e], op |-> p.last.op]),
                   !.last.path = "network"]

\* loadContentSection up to its first await (lines 2246-2267)
loadContentSection(p, e) ==
    IF p.loading[e] = "true" THEN [p EXCEPT !.last.path = "busy"]
    ELSE IF p.loaded[e] = "true" /\ ~p.appendMode[e] THEN [p EXCEPT !.last.path = "loaded"]
    ELSE [p EXCEPT !.loading[e] = "true",
                   !.fetches[e] = Append(@, [page |-> p.page[e], op |-> p.last.op]),
                   !.last.path = "network"]

\* the timer of loadInitialContent, or preloadCriticalContent
InitialLoad(e) ==
    /\ initialTimers[e]
    /\ SecCommit(loadContentSection([SecBegin("initialLoad", e)
                                       EXCEPT !.initialTimers[e] = FALSE], e))

\* the intersection observer reports the section: handleIntersection
Intersection(e) ==
    /\ observed[e]
    /\ LET p == SecBegin("intersection", e)
       IN IF p.loaded[e] = "unset"
          THEN SecCommit([loadContentSection(p, e) EXCEPT !.observed[e] = FALSE])
          ELSE SecCommit(p)

\* handleLoadMore up to its await: the button is inside the section
handleLoadMore(p, e) ==
    IF p.loading[e] = "true" THEN [p EXCEPT !.last.path = "busy"]
    ELSE loadContentSection([p EXCEPT !.appendMode[e] = TRUE], e)

\* a click on the load-more button
LoadMoreClick(e) ==
    /\ loadMoreBtn[e]
    /\ SecCommit(handleLoadMore(SecBegin("loadMore", e), e))

\* checkInfiniteScroll with the section near the bottom of the window
InfiniteScroll(e) ==
    /\ LET p == SecBegin("infiniteScroll", e)
       IN IF p.loading[e] = "unset" /\ ~p.allLoaded[e] /\ p.btn[e]
          THEN SecCommit(handleLoadMore(p, e))
          ELSE SecCommit(p)

\* reloadSection, the onclick of the Try Again button of the error state
ReloadSection(e) ==
    /\ sectionView[e] = "errorState"
    /\ Len(sectionFetches[e]) < MaxSectionFetches
    /\ SecCommit(loadContentSection([SecBegin("reloadSection", e)
                                       EXCEPT !.loaded[e] = "false",
                                              !.loading[e] = "false"], e))

\* the finally block of loadContentSection
SectionFinally(p, e, i) ==
    [p EXCEPT !.loading[e] = "false", !.fetches[e] = RemoveAt(@, i)]

\* renderContent with a successful response of some html, and loaded = 'true'
\* (lines 2269-2271, 2315-2406); more is the response's has_more
SectionDone(e, i, more) ==
    /\ i \in 1..Len(sectionFetches[e])
    /\ more => sectionFetches[e][i].page < MaxPage
    /\ LET f == sectionFetches[e][i]
           p == SecBegin("sectionDone", e)
           p1 == [p EXCEPT !.view[e] = "content",
                           !.btn[e] = IF p.appendMode[e] THEN @ /\ more ELSE more,
                           !.page[e] = IF more THEN f.page + 1 ELSE @,
                           !.allLoaded[e] = @ \/ ~more,
                           !.appendMode[e] = FALSE,
                           !.loaded[e] = "true",
                           !.last.path = f.op]
       IN SecCommit(SectionFinally(p1, e, i))

\* a failure that is retried however many retries the key has had
sectionHandleLoadErrorAlways(p, e, pg) ==
    LET retryCount == p.retryDelays[pg]
    IN [p EXCEPT !.retryDelays[pg] = Min(retryCount + 1, sectionMaxRetries + 1),
                 !.timers = @ (+) SetToBag({[elem |-> e, delay |-> Pow2(retryCount) * 1000]}),
                 !.view[e] = "retryMessage", !.btn[e] = FALSE,
                 !.last.retries = retryCount,
                 !.last.delay = Pow2(retryCount) * 1000]

\* ProgressiveLoader.handleLoadError (lines 2671-2690); both messages replace
\* the section's content
sectionHandleLoadError(p, e, pg) ==
    LET retryCount == p.retryDelays[pg]
    IN IF retryCount < sectionMaxRetries
       THEN [p EXCEPT !.retryDelays[pg] = retryCount + 1,
                      !.timers = @ (+) SetToBag({[elem |-> e, delay |-> Pow2(retryCount) * 1000]}),
                      !.view[e] = "retryMessage", !.btn[e] = FALSE,
                      !.last.retries = retryCount,
                      !.last.delay = Pow2(retryCount) * 1000]
       ELSE [p EXCEPT !.view[e] = "errorState", !.btn[e] = FALSE,
                      !.last.retries = retryCount]

\* fetchContent threw (non-2xx status, timeout, network error) or the response
\* has success false: the catch block, then the finally block
SectionFailed(e, i) ==
    /\ i \in 1..Len(sectionFetches[e])
    /\ LET f == sectionFetches[e][i]
           p == [SecBegin("sectionFailed", e) EXCEPT !.last.path = f.op]
       IN SecCommit(SectionFinally(sectionHandleLoadError(p, e, f.page), e, i))

\* the retry timer of handleLoadError: loadContentSection(element, type)
SectionRetryTimer(t) ==
    /\ BagIn(t, sectionTimers)
    /\ LET p == [SecBegin("sectionRetry", t.elem) EXCEPT !.timers = @ (-) SetToBag({t}),
                                                         !.last.delay = t.delay]
       IN SecCommit(loadContentSection(p, t.elem))

InitSectionsPage ==
    /\ InitApi({"list"}, {}) /\ networkStatus
    /\ InitSectionsIn({"blank", "content"})
    /\ InitErrorHandler

NextSections ==
    \/ \E e \in Sections : InitialLoad(e)
    \/ \E e \in Sections : Intersection(e)
    \/ \E e \in Sections : LoadMoreClick(e)
    \/ \E e \in Sections : InfiniteScroll(e)
    \/ \E e \in Sections : ReloadSection(e)
    \/ \E e \in Sections : \E i \in 1..Len(sectionFetches[e]) : \E more \in BOOLEAN : SectionDone(e, i, more)
    \/ \E e \in Sections : \E i \in 1..Len(sectionFetches[e]) : SectionFailed(e, i)
    \/ \E t \in BagToSet(sectionTimers) : SectionRetryTimer(t)

SpecSections == InitSectionsPage /\ [][NextSections]_vars

\* the delays of the first, second and third retry
sectionRetryDelays == <<1000, 2000, 4000>>

C34_FailureAfterTryAgainIsRetried ==
    [][ last'.op = "sectionFailed" /\ last'.path = "reloadSection"
        => /\ \E t \in BagToSet(sectionTimers') :
                 CopiesIn(t, sectionTimers') > CopiesIn(t, sectionTimers)
           /\ sectionView'[last'.elem] = "retryMessage" ]_vars

\* the sections loaded by the triggers the page and the loader produce by
\* themselves: initial loads, intersection callbacks, load-more clicks,
\* infinite-scroll triggers and retry timers
NextSectionsAuto ==
    \/ \E e \in Sections : InitialLoad(e)
    \/ \E e \in Sections : Intersection(e)
    \/ \E e \in Sections : LoadMoreClick(e)
    \/ \E e \in Sections : InfiniteScroll(e)
    \/ \E e \in Sections : \E i \in 1..Len(sectionFetches[e]) : \E more \in BOOLEAN : SectionDone(e, i, more)
    \/ \E e \in Sections : \E i \in 1..Len(sectionFetches[e]) : SectionFailed(e, i)
    \/ \E t \in BagToSet(sectionTimers) : SectionRetryTimer(t)

SpecSectionsAuto == InitSectionsPage /\ [][NextSectionsAuto]_vars

\* C35: under every interleaving of initial loads, intersection callbacks,
\* load-more clicks, infinite-scroll triggers and retry timers, a section has
\* at most one fetch in flight, and it has one exactly while its data-loading
\* flag is 'true'.
C35_OneFetchPerSection ==
    \A e \in Sections :
        /\ Len(sectionFetches[e]) <= 1
        /\ (sectionLoading[e] = "true") <=> (Len(sectionFetches[e]) = 1)

\* a retry timer came due while another fetch of the section was in flight
\* and started nothing
C35_RetryRefusedWhileLoading ==
    /\ last.op = "sectionRetry" /\ last.path = "busy"
    /\ Len(sectionFetches[last.elem]) = 1

(***************************************************************************)
(* ErrorHandler.  A task that reports an error runs as a stack of frames;  *)
(* one step is one call or one return.  init() has replaced console.error  *)
(* by the wrapper of setupConsoleErrorTracking before any error arrives.   *)
(***************************************************************************)
\* where an error comes from: the window's error event, its
\* unhandledrejection event, or code of the page calling console.error
ErrorEntries == {"handleGlobalError", "handlePromiseRejection", "pageCode"}

Frame(fn) == [fn |-> fn, pc |-> 0]

Top == callStack[Len(callStack)]

\* the top frame returns to its caller
Return ==
    /\ callStack' = SubSeq(callStack, 1, Len(callStack) - 1)
    /\ UNCHANGED <<errorCount, recovered, thrown>>

\* the top frame calls fn and will go on after the call; a call on a full
\* stack throws RangeError: Maximum call stack size exceeded
Call(fn) ==
    IF Len(callStack) >= MaxStack
    THEN /\ thrown' = TRUE
         /\ UNCHANGED <<errorCount, recovered, callStack>>
    ELSE /\ callStack' = Append([callStack EXCEPT ![Len(callStack)].pc = @ + 1], Frame(fn))
         /\ UNCHANGED <<errorCount, recovered, thrown>>

\* an error is reported while no task runs
ErrorRaised(entry) ==
    /\ callStack = <<>>
    /\ callStack' = <<Frame(entry)>>
    /\ UNCHANGED <<errorCount, recovered, thrown>>
    /\ UNCHANGED <<apiVars, sectionVars, last>>

\* handleGlobalError and handlePromiseRejection: build the error, processError
handleGlobalError == IF Top.pc = 0 THEN Call("processError") ELSE Return

\* code of the page that calls console.error
pageCode == IF Top.pc = 0 THEN Call("consoleError") ELSE Return

\* the wrapper installed as console.error (lines 1455-1482):
\* originalConsoleError.apply, then this.processError(error)
consoleError == IF Top.pc = 0 THEN Call("processError") ELSE Return

\* processError (lines 1488-1507): logError, trackError, the recovery
\* strategy of the category, checkErrorThreshold
processError ==
    CASE Top.pc = 0 -> Call("logError")
      [] Top.pc = 1 -> /\ errorCount < MaxErrorCount
                       /\ errorCount' = errorCount + 1
                       /\ callStack' = [callStack EXCEPT ![Len(callStack)].pc = 2]
                       /\ UNCHANGED <<recovered, thrown>>
      [] OTHER      -> /\ recovered' = recovered + 1
                       /\ callStack' = SubSeq(callStack, 1, Len(callStack) - 1)
                       /\ UNCHANGED <<errorCount, thrown>>

\* logError (lines 1512-1528): console.group, console.error(error.message),
\* which is the wrapper, then console.info and the report to the server
logError == IF Top.pc = 0 THEN Call("consoleError") ELSE Return

\* one call or return of the running task; no frame on the stack encloses its
\* call in a try, so an exception leaves every frame and ends the task
ErrorHandlerStep ==
    /\ callStack # <<>>
    /\ IF thrown
       THEN /\ callStack' = SubSeq(callStack, 1, Len(callStack) - 1)
            /\ thrown' = (Len(callStack) > 1)
            /\ UNCHANGED <<errorCount, recovered>>
       ELSE CASE Top.fn \in {"handleGlobalError", "handlePromiseRejection"} -> handleGlobalError
              [] Top.fn = "pageCode" -> pageCode
              [] Top.fn = "consoleError" -> consoleError
              [] Top.fn = "processError" -> processError
              [] OTHER -> logError
    /\ UNCHANGED <<apiVars, sectionVars, last>>

InitErrors == InitPage({"list"}, {}) /\ networkStatus

NextErrors ==
    \/ \E entry \in ErrorEntries : ErrorRaised(entry)
    \/ ErrorHandlerStep

SpecErrors == InitErrors /\ [][NextErrors]_vars

\* the processError frames on the stack
Processing == {i \in 1..Len(callStack) : callStack[i].fn = "processError"}

\* C36: handling one error does not start the processing of another: the task
\* never holds two processError frames, and it never ends by an exception.
C36_OneErrorPerReport ==
    /\ Cardinality(Processing) <= 1
    /\ ~thrown

\* C37: concurrentRequests is never negative, also while several attempts are
\* in flight and some of them end with a non-2xx status.
C37_CounterNeverNegative == concurrentRequests >= 0

(***************************************************************************)
(* The page reloaded in a tab whose session tier holds, for the key of the *)
(* home area, a string that is not JSON, while the durable tier holds the  *)
(* entry written earlier.                                                  *)
(***************************************************************************)
InitUnreadable ==
    /\ InitStored({"hero"}, {"hero"}, {"hero"}) /\ networkStatus
    /\ InitSectionsIn({"blank"})
    /\ InitErrorHandler

SpecUnreadable == InitUnreadable /\ [][NextStorage]_vars

\* C38: an unreadable session entry is a miss for the session tier only: a
\* load that starts while the session tier holds an unreadable entry for its
\* key and the durable tier a readable one gets the durable entry from
\* getFromBrowserCache.
C38_UnreadableSessionFallsThrough ==
    [][ /\ last'.op = "loadContent"
        /\ sessionStore[last'.elem].present /\ ~Readable(sessionStore[last'.elem])
        /\ localStore[last'.elem].present /\ Readable(localStore[last'.elem])
        => getFromBrowserCache(St, last'.elem) = localStore[last'.elem] ]_vars

====
